---- MODULE Spec2Model ----
(***************************************************************************)
(* State machine of protonvpn_gui/main.py: the ProtonVPNGUI application    *)
(* controller (startup, activation, quit, logout, get-logs), the two       *)
(* background tasks it spawns and the GLib idle queue through which the    *)
(* tasks reach the UI thread.                                              *)
(*                                                                         *)
(* A UI-thread handler runs to completion on the single UI thread, so it   *)
(* is one action.  A background target runs on another thread, so each     *)
(* library call it makes is a step of its own, interleaved with the UI     *)
(* thread.                                                                 *)
(***************************************************************************)
EXTENDS Naturals, Sequences, FiniteSets

\* Bounds of the model (not program constants).
MaxWindows == 2
MaxLogouts == 2
MaxLogTasks == 2
MaxDialogs == 1
MaxJointTasks == 1

VARIABLES
    phase,            \* "new" before do_startup, "ready" after it, "failed" if it raised
    actions,          \* names of the Gio actions registered by setup_actions
    quitCalled,       \* Gtk.Application.quit() has been called
    sudoRefused,      \* do_startup saw SUDO_UID and an answer other than y/Y
    conn,             \* protonvpn.get_active_protonvpn_connection() is truthy
    session,          \* protonvpn.check_session_exists()
    is_logging_out,   \* self.is_logging_out
    indicator,        \* self.indicator: "None" or "Indicator"
    indicators,       \* number of calls of generate_protonvpn_indicator
    sessionChecks,    \* number of calls of protonvpn.check_session_exists
    reactivated,      \* do_activate has presented a window that already existed
    wins,             \* application windows ever created (Login / Dashboard)
    idle,             \* GLib idle queue: callbacks waiting for the UI thread
    logouts,          \* logout background tasks ever set up by on_logout
    logs,             \* get-logs background tasks, each with its progress dialog
    notices,          \* open "please wait" notices
    quitDialogs,      \* open QuitDialog confirmations
    disconnectResult, \* outcome of the last protonvpn.disconnect() call
    uiErrors,         \* exceptions that left a UI-thread handler or callback
    escaped           \* exceptions that left a background target

vars == <<phase, actions, quitCalled, sudoRefused, conn, session, is_logging_out,
          indicator, indicators, sessionChecks, reactivated, wins, idle, logouts, logs, notices,
          quitDialogs,  disconnectResult, uiErrors, escaped>>

\* ---------------------------------------------------------------- helpers

\* str.lower() on the answers the prompt is given here.
lower(s) == IF s = "Y" THEN "y" ELSE IF s = "N" THEN "n" ELSE s

Answers == {"y", "Y", "n", "N", ""}

\* The main loop dispatches handlers once startup is over and until quit().
Running == phase = "ready" /\ ~quitCalled

\* Application.get_windows(): the windows that are still open, in creation order.
get_windows == SelectSeq([i \in 1..Len(wins) |-> i], LAMBDA i : wins[i].open)

\* props.active_window is None exactly when the application has no window.
NoActiveWindow == get_windows = <<>>

\* Optional capabilities of the two window classes: the Dashboard runs
\* background work and closes gracefully, the Login window does neither.
HasPrepare(kind) == kind = "dashboard"
HasOnClose(kind) == kind = "dashboard"

\* A logout task whose completion callback has still to create a Login window.
Pending(t) == logouts[t].st \notin {"done", "dismissed"}
NumPending == Cardinality({t \in 1..Len(logouts) : Pending(t)})

\* A logout task that was started and whose completion callback has not run.
InFlight(t) == logouts[t].st \in {"started", "prepared", "called", "returned"}

NewWindow(kind, by) ==
    [kind |-> kind, open |-> TRUE, prepared |-> FALSE, by |-> by, closedBy |-> "none"]

Entry(op, id, by, args) == [op |-> op, id |-> id, by |-> by, args |-> args]

\* ------------------------------------------------------------------- Init

Init ==
    /\ phase = "new"
    /\ actions = {}
    /\ quitCalled = FALSE
    /\ sudoRefused = FALSE
    /\ conn \in BOOLEAN
    /\ session \in BOOLEAN
    /\ is_logging_out = FALSE
    /\ indicator = "None"
    /\ indicators = 0
    /\ sessionChecks = 0
    /\ reactivated = FALSE
    /\ wins = <<>>
    /\ idle = <<>>
    /\ logouts = <<>>
    /\ logs = <<>>
    /\ notices = 0
    /\ quitDialogs = 0
    /\ disconnectResult = "none"
    /\ uiErrors = {}
    /\ escaped = {}

\* ------------------------------------------------------------------- quit

\* Outcomes of protonvpn.disconnect(): it succeeds on an existing connection
\* and raises ConnectionNotFound without one.
DisconnectOutcomes == IF conn THEN {"ok"} ELSE {"notfound"}

\* quit_ without the except clause: ConnectionNotFound leaves the handler.
quit_uncaught(r) ==
    /\ r \in DisconnectOutcomes
    /\ disconnectResult' = r
    /\ conn' = IF r = "ok" THEN FALSE ELSE conn
    /\ IF r \in {"error", "notfound"}
         THEN /\ uiErrors' = uiErrors \cup {"disconnect"}
              /\ UNCHANGED quitCalled
         ELSE /\ quitCalled' = TRUE
              /\ UNCHANGED uiErrors

\* quit_(): disconnect, absorbing ConnectionNotFound only, then self.quit().
quit_(r) ==
    /\ r \in DisconnectOutcomes
    /\ disconnectResult' = r
    /\ conn' = IF r = "ok" THEN FALSE ELSE conn
    /\ IF r = "error"
         THEN /\ uiErrors' = uiErrors \cup {"disconnect"}
              /\ UNCHANGED quitCalled
         ELSE /\ quitCalled' = TRUE
              /\ UNCHANGED uiErrors

\* on_quit without the connection test: it always quits at once.
on_quit_no_confirm(r) ==
    /\ quit_(r)
    /\ UNCHANGED quitDialogs

\* on_quit(): a confirmation dialog when a connection is active, else quit_().
on_quit(r) ==
    IF conn
      THEN /\ quitDialogs < MaxDialogs
           /\ quitDialogs' = quitDialogs + 1
           /\ UNCHANGED <<disconnectResult, conn, uiErrors, quitCalled>>
      ELSE /\ quit_(r)
           /\ UNCHANGED quitDialogs

\* The "quit" action of the running application.
OnQuit ==
    /\ Running
    /\ "quit" \in actions
    /\ \E r \in {"ok", "notfound", "error"} : on_quit(r)
    /\ UNCHANGED <<phase, actions, sudoRefused, session, is_logging_out, indicator,
                   indicators, sessionChecks, reactivated, wins, idle, logouts, logs, notices, 
                   escaped>>

\* QuitDialog: the affirmative button runs the callback it was given (quit_).
QuitDialogConfirm ==
    /\ Running
    /\ quitDialogs > 0
    /\ quitDialogs' = quitDialogs - 1
    /\ \E r \in {"ok", "notfound", "error"} : quit_(r)
    /\ UNCHANGED <<phase, actions, sudoRefused, session, is_logging_out, indicator,
                   indicators, sessionChecks, reactivated, wins, idle, logouts, logs, notices, 
                   escaped>>

\* QuitDialog: the negative button only closes the dialog.
QuitDialogCancel ==
    /\ Running
    /\ quitDialogs > 0
    /\ quitDialogs' = quitDialogs - 1
    /\ UNCHANGED <<phase, actions, quitCalled, sudoRefused, conn, session,
                   is_logging_out, indicator, indicators, sessionChecks, reactivated, wins, idle, logouts, logs,
                   notices,  disconnectResult, uiErrors, escaped>>

\* ---------------------------------------------------------------- startup

setup_actions == {"quit", "logout", "about", "get-logs"}

\* do_startup(): the sudo prompt, then Gtk.Application.do_startup and
\* setup_actions.  on_quit() returns to do_startup unless disconnect raised.
do_startup(sudo, answer, r) ==
    /\ phase = "new"
    /\ IF sudo /\ lower(answer) # "y"
         THEN /\ sudoRefused' = TRUE
              /\ on_quit(r)
         ELSE /\ sudoRefused' = FALSE
              /\ UNCHANGED <<quitDialogs, disconnectResult, conn, uiErrors, quitCalled>>
    /\ IF uiErrors' = uiErrors
         THEN /\ phase' = "ready"
              /\ actions' = setup_actions
         ELSE /\ phase' = "failed"
              /\ UNCHANGED actions
    /\ UNCHANGED <<session, is_logging_out, indicator, indicators, sessionChecks, reactivated, wins, idle,
                   logouts, logs, notices,  escaped>>

DoStartup ==
    \E sudo \in BOOLEAN, answer \in Answers, r \in {"ok", "notfound", "error"} :
        do_startup(sudo, answer, r)

\* ------------------------------------------------------------- activation

\* WindowToDisplay with the test inverted.
WindowToDisplay_inverted(sessionExists) == IF sessionExists THEN "login" ELSE "dashboard"

\* The window do_activate builds when there is none: Login without a session,
\* Dashboard with one.  get_login_window() is handed the get_dashboard_window
\* method itself, so building the Login window builds no Dashboard.
WindowToDisplay(sessionExists) == IF ~sessionExists THEN "login" ELSE "dashboard"

\* generate_protonvpn_indicator(self) returns the tray icon reference.
generate_protonvpn_indicator == "Indicator"

\* do_activate without the test: the indicator is generated every time.
IndicatorMissing_always == TRUE

\* The test "if not self.indicator" of do_activate.
IndicatorMissing == indicator = "None"

\* do_activate without the "if not win" test: it builds a window every time.
do_activate_always_builds ==
    /\ Running
    /\ indicator' = (IF IndicatorMissing THEN generate_protonvpn_indicator ELSE indicator)
    /\ indicators' = IF IndicatorMissing THEN indicators + 1 ELSE indicators
    /\ Len(wins) + NumPending < MaxWindows
    /\ sessionChecks' = sessionChecks + 1
    /\ wins' = Append(wins, NewWindow(WindowToDisplay(session), "activate"))
    /\ reactivated' = (reactivated \/ ~NoActiveWindow)
    /\ UNCHANGED <<phase, actions, quitCalled, sudoRefused, conn, session,
                   is_logging_out, idle, logouts, logs, notices, quitDialogs,  disconnectResult, uiErrors, escaped>>

\* do_activate(): create the indicator once, build a window if there is none,
\* present the window.
do_activate ==
    /\ Running
    /\ indicator' = (IF IndicatorMissing THEN generate_protonvpn_indicator ELSE indicator)
    /\ indicators' = IF IndicatorMissing THEN indicators + 1 ELSE indicators
    /\ IF NoActiveWindow
         THEN /\ Len(wins) + NumPending < MaxWindows
              /\ sessionChecks' = sessionChecks + 1
              /\ wins' = Append(wins, NewWindow(WindowToDisplay(session), "activate"))
              /\ UNCHANGED reactivated
         ELSE /\ reactivated' = TRUE
              /\ UNCHANGED <<wins, sessionChecks>>
    /\ UNCHANGED <<phase, actions, quitCalled, sudoRefused, conn, session,
                   is_logging_out, idle, logouts, logs, notices, quitDialogs,  disconnectResult, uiErrors, escaped>>

\* The user closes an open window.
UserCloseWindow ==
    /\ Running
    /\ \E i \in 1..Len(wins) :
          /\ wins[i].open
          /\ wins' = [wins EXCEPT ![i].open = FALSE, ![i].closedBy = "user"]
    /\ UNCHANGED <<phase, actions, quitCalled, sudoRefused, conn, session,
                   is_logging_out, indicator, indicators, sessionChecks, reactivated, idle, logouts, logs,
                   notices, quitDialogs,  disconnectResult, uiErrors,
                   escaped>>

\* The library's state changes outside this file: a connection comes up or
\* goes down, the user logs in through the Login window.
LibraryChange ==
    /\ Running
    /\ \/ conn' = ~conn /\ UNCHANGED session
       \/ ~session /\ session' = TRUE /\ UNCHANGED conn
    /\ UNCHANGED <<phase, actions, quitCalled, sudoRefused, is_logging_out,
                   indicator, indicators, sessionChecks, reactivated, wins, idle, logouts, logs, notices,
                   quitDialogs,  disconnectResult, uiErrors, escaped>>

\* ----------------------------------------------------------------- logout

ProgressContent == <<"Logout", "Logging out...">>

\* NewLogout without the connection test: p.start() is always called at once.
NewLogout_no_confirm(active) ==
    [st       |-> "started",
     dlg      |-> "open",
     content  |-> <<"Logout", "Logging out...">>,
     snap     |-> <<>>,
     res      |-> "none",
     late     |-> {},
     unasked  |-> {},
     ret      |-> FALSE,
     cb       |-> 0,
     login    |-> 0]

\* The task on_logout sets up: p.setup(target=_logout, callback=display_login_window),
\* then either p.start() or LogoutDialog(self, p.start) after closing the
\* progress dialog.
NewLogout(active) ==
    [st       |-> IF active THEN "confirm" ELSE "started",
     dlg      |-> IF active THEN "closed" ELSE "open",
     content  |-> ProgressContent,
     snap     |-> <<>>,
     res      |-> "none",
     late     |-> {},
     unasked  |-> {},
     ret      |-> FALSE,
     cb       |-> 0,
     login    |-> 0]

\* on_logout without the is_logging_out guard: every request is a first request.
on_logout_unguarded ==
    /\ Running
    /\ "logout" \in actions
    /\ Len(logouts) < MaxLogouts
    /\ Len(wins) + NumPending < MaxWindows
    /\ is_logging_out' = TRUE
    /\ logouts' = Append(logouts, NewLogout(conn))
    /\ UNCHANGED <<phase, actions, quitCalled, sudoRefused, conn, session, indicator,
                   indicators, sessionChecks, reactivated, wins, idle, logs, notices, quitDialogs,
                   disconnectResult, uiErrors, escaped>>

\* on_logout(): the "please wait" notice while is_logging_out, else the first
\* request.
on_logout ==
    /\ Running
    /\ "logout" \in actions
    /\ IF is_logging_out
         THEN /\ notices < MaxDialogs
              /\ notices' = notices + 1
              /\ UNCHANGED <<is_logging_out, logouts>>
         ELSE /\ Len(logouts) < MaxLogouts
              /\ Len(wins) + NumPending < MaxWindows
              /\ is_logging_out' = TRUE
              /\ logouts' = Append(logouts, NewLogout(conn))
              /\ UNCHANGED notices
    /\ UNCHANGED <<phase, actions, quitCalled, sudoRefused, conn, session, indicator,
                   indicators, sessionChecks, reactivated, wins, idle, logs, quitDialogs, 
                   disconnectResult, uiErrors, escaped>>

\* LogoutDialog: the affirmative button runs the callback it was given (p.start).
LogoutDialogConfirm ==
    /\ Running
    /\ \E t \in 1..Len(logouts) :
          /\ logouts[t].st = "confirm"
          /\ logouts' = [logouts EXCEPT ![t].st = "started"]
    /\ UNCHANGED <<phase, actions, quitCalled, sudoRefused, conn, session,
                   is_logging_out, indicator, indicators, sessionChecks, reactivated, wins, idle, logs, notices,
                   quitDialogs,  disconnectResult, uiErrors, escaped>>

\* LogoutDialog: the negative button only closes the dialog.
LogoutDialogCancel ==
    /\ Running
    /\ \E t \in 1..Len(logouts) :
          /\ logouts[t].st = "confirm"
          /\ logouts' = [logouts EXCEPT ![t].st = "dismissed"]
    /\ UNCHANGED <<phase, actions, quitCalled, sudoRefused, conn, session,
                   is_logging_out, indicator, indicators, sessionChecks, reactivated, wins, idle, logs, notices,
                   quitDialogs,  disconnectResult, uiErrors, escaped>>

\* _logout without its first loop: no window is asked to prepare.
PrepareEntries_none(t, snap) == <<>>

\* First loop of _logout: idle_add(win.prepare_for_app_shutdown) for every
\* window that has the method (the AttributeError of the others is passed).
PrepareEntries(t, snap) ==
    [k \in 1..Len(SelectSeq(snap, LAMBDA i : HasPrepare(wins[i].kind))) |->
        Entry("prepare", SelectSeq(snap, LAMBDA i : HasPrepare(wins[i].kind))[k], t, <<>>)]

\* Second loop of _logout: idle_add(win.on_close_window, None, None, True), or
\* idle_add(win.destroy) on AttributeError.
CloseEntries(t, snap) ==
    [k \in 1..Len(snap) |->
        Entry(IF HasOnClose(wins[snap[k]].kind) THEN "close" ELSE "destroy",
              snap[k], t, <<>>)]

\* _logout, up to the library call: snapshot get_windows() and schedule the
\* prepare callbacks.
_logout_prepare ==
    /\ Running
    /\ \E t \in 1..Len(logouts) :
          /\ logouts[t].st = "started"
          /\ logouts' = [logouts EXCEPT ![t].st = "prepared", ![t].snap = get_windows]
          /\ idle' = idle \o PrepareEntries(t, get_windows)
    /\ UNCHANGED <<phase, actions, quitCalled, sudoRefused, conn, session,
                   is_logging_out, indicator, indicators, sessionChecks, reactivated, wins, logs, notices,
                   quitDialogs,  disconnectResult, uiErrors, escaped>>

\* Windows of the snapshot with a prepare step that has not run yet.
Unprepared(snap) ==
    {i \in 1..Len(wins) :
        /\ \E k \in 1..Len(snap) : snap[k] = i
        /\ HasPrepare(wins[i].kind)
        /\ ~wins[i].prepared}

\* Windows whose prepare callback waits in the idle queue.
AskedToPrepare == {idle[k].id : k \in {j \in 1..Len(idle) : idle[j].op = "prepare"}}

\* What the except clause around protonvpn.logout() does with a failure: it
\* logs it, and leaves the progress dialog as it is.
AfterLogoutCall(task, r) == [task EXCEPT !.st = "called", !.res = r]

\* _logout: protonvpn.logout(), any exception caught and logged.
_logout_call ==
    /\ Running
    /\ \E t \in 1..Len(logouts), r \in {"ok", "fail"} :
          /\ logouts[t].st = "prepared"
          /\ logouts' = [logouts EXCEPT
                           ![t] = [AfterLogoutCall(logouts[t], r) EXCEPT
                                     !.late = Unprepared(logouts[t].snap),
                                     !.unasked = Unprepared(logouts[t].snap)
                                                   \ AskedToPrepare]]
          /\ session' = IF r = "ok" THEN FALSE ELSE session
    /\ UNCHANGED <<phase, actions, quitCalled, sudoRefused, conn, is_logging_out,
                   indicator, indicators, sessionChecks, reactivated, wins, idle, logs, notices, quitDialogs,  disconnectResult, uiErrors, escaped>>

\* _logout closing the windows itself, on the background thread, instead of
\* handing the calls to GLib.idle_add.
_logout_close_direct ==
    /\ Running
    /\ \E t \in 1..Len(logouts) :
          /\ logouts[t].st = "called"
          /\ logouts' = [logouts EXCEPT ![t].st = "returned", ![t].ret = TRUE]
          /\ wins' = [i \in 1..Len(wins) |->
                        IF \E k \in 1..Len(logouts[t].snap) : logouts[t].snap[k] = i
                          THEN [wins[i] EXCEPT !.open = FALSE,
                                               !.closedBy = IF wins[i].open THEN "destroy" ELSE @]
                          ELSE wins[i]]
    /\ UNCHANGED <<phase, actions, quitCalled, sudoRefused, conn, session,
                   is_logging_out, indicator, indicators, sessionChecks, reactivated,
                   idle, logs, notices, quitDialogs, disconnectResult, uiErrors,
                   escaped>>

\* _logout reading get_windows() a second time for its second loop instead of
\* using the list it took when it began.
_logout_close_reread ==
    /\ Running
    /\ \E t \in 1..Len(logouts) :
          /\ logouts[t].st = "called"
          /\ logouts' = [logouts EXCEPT ![t].st = "returned", ![t].ret = TRUE]
          /\ idle' = idle \o CloseEntries(t, get_windows)
    /\ UNCHANGED <<phase, actions, quitCalled, sudoRefused, conn, session,
                   is_logging_out, indicator, indicators, sessionChecks, reactivated, wins, logs, notices,
                   quitDialogs,  disconnectResult, uiErrors, escaped>>

\* _logout, after the library call: schedule the close callbacks and return;
\* the task's completion callback is then due on the UI thread.
_logout_close ==
    /\ Running
    /\ \E t \in 1..Len(logouts) :
          /\ logouts[t].st = "called"
          /\ logouts' = [logouts EXCEPT ![t].st = "returned", ![t].ret = TRUE]
          /\ idle' = idle \o CloseEntries(t, logouts[t].snap)
    /\ UNCHANGED <<phase, actions, quitCalled, sudoRefused, conn, session,
                   is_logging_out, indicator, indicators, sessionChecks, reactivated, wins, logs, notices,
                   quitDialogs,  disconnectResult, uiErrors, escaped>>

\* A task runner that invokes the callback as soon as the task is started.
CallbackDue_early(t) == logouts[t].st \in {"started", "prepared", "called", "returned"}

\* BackgroundProcess ("gtask"): the callback given to setup() is invoked on the
\* UI thread after the target has returned.
CallbackDue(t) == logouts[t].st = "returned"

\* display_login_window(): the completion callback of the logout task.
display_login_window ==
    /\ Running
    /\ \E t \in 1..Len(logouts) :
          /\ CallbackDue(t)
          /\ logouts' = [logouts EXCEPT ![t].st = "done",
                                        ![t].cb = @ + 1,
                                        ![t].login = Len(wins) + 1]
    /\ is_logging_out' = FALSE
    /\ wins' = Append(wins, NewWindow("login", "logout"))
    /\ UNCHANGED <<phase, actions, quitCalled, sudoRefused, conn, session, indicator,
                   indicators, sessionChecks, reactivated, idle, logs, notices, quitDialogs, 
                   disconnectResult, uiErrors, escaped>>

\* --------------------------------------------------------------- get-logs

GeneratingContent == <<"Generating logs", "Generating logs, please wait...">>

\* on_click_get_logs(): the progress dialog, and a task running
\* _async_get_logs(dialog).
on_click_get_logs ==
    /\ Running
    /\ "get-logs" \in actions
    /\ Len(logs) < MaxLogTasks
    /\ logs' = Append(logs, [st |-> "started", dlg |-> "open",
                             content |-> GeneratingContent,
                             gen |-> "none", opn |-> "none"])
    /\ UNCHANGED <<phase, actions, quitCalled, sudoRefused, conn, session,
                   is_logging_out, indicator, indicators, sessionChecks, reactivated, wins, idle, logouts,
                   notices, quitDialogs,  disconnectResult, uiErrors,
                   escaped>>

\* _async_get_logs: protonvpn.get_bug_report(), outside every try block.
_async_get_bug_report ==
    /\ Running
    /\ \E t \in 1..Len(logs), r \in {"ok", "fail"} :
          /\ logs[t].st = "started"
          /\ IF r = "ok"
               THEN /\ logs' = [logs EXCEPT ![t].st = "got"]
                    /\ UNCHANGED escaped
               ELSE /\ logs' = [logs EXCEPT ![t].st = "raised"]
                    /\ escaped' = escaped \cup {"get_bug_report"}
    /\ UNCHANGED <<phase, actions, quitCalled, sudoRefused, conn, session,
                   is_logging_out, indicator, indicators, sessionChecks, reactivated, wins, idle, logouts,
                   notices, quitDialogs,  disconnectResult, uiErrors>>

\* The except clause of generate_logs() without its return: the code falls
\* through to idle_add(dialog.close_dialog).
GenerateFailedEntries_no_return(t) ==
    <<Entry("update", t, 0, <<"Unable to generate logs", "Unable to generate logs: e">>),
      Entry("close_dialog", t, 0, <<>>)>>

\* The idle callbacks _async_get_logs schedules when generate_logs() raises:
\* __dialog_updater with the dialog, a title and a description; then it returns.
GenerateFailedEntries(t) ==
    <<Entry("update", t, 0, <<"Unable to generate logs", "Unable to generate logs: e">>)>>

\* _async_get_logs: bug_report.generate_logs().
_async_generate_logs ==
    /\ Running
    /\ \E t \in 1..Len(logs), r \in {"ok", "fail"} :
          /\ logs[t].st = "got"
          /\ IF r = "ok"
               THEN /\ logs' = [logs EXCEPT ![t].st = "generated", ![t].gen = "ok"]
                    /\ UNCHANGED idle
               ELSE /\ logs' = [logs EXCEPT ![t].st = "returned", ![t].gen = "fail"]
                    /\ idle' = idle \o GenerateFailedEntries(t)
    /\ UNCHANGED <<phase, actions, quitCalled, sudoRefused, conn, session,
                   is_logging_out, indicator, indicators, sessionChecks, reactivated, wins, logouts, notices,
                   quitDialogs,  disconnectResult, uiErrors, escaped>>

\* The idle callback _async_get_logs schedules when open_folder_with_logs()
\* raises: the three adjacent string literals have no comma between them, so
\* __dialog_updater is given the dialog and ONE string.
OpenFailedEntries(t) ==
    <<Entry("update", t, 0,
            <<"Unable to generate logs Unable to open file explorer with logs. You can find the logs at ~/.cache/protonvpn/logs">>)>>

\* _async_get_logs: bug_report.open_folder_with_logs(), then
\* idle_add(dialog.close_dialog) if nothing failed.
_async_open_folder ==
    /\ Running
    /\ \E t \in 1..Len(logs), r \in {"ok", "fail"} :
          /\ logs[t].st = "generated"
          /\ logs' = [logs EXCEPT ![t].st = "returned", ![t].opn = r]
          /\ idle' = idle \o (IF r = "ok"
                                THEN <<Entry("close_dialog", t, 0, <<>>)>>
                                ELSE OpenFailedEntries(t))
    /\ UNCHANGED <<phase, actions, quitCalled, sudoRefused, conn, session,
                   is_logging_out, indicator, indicators, sessionChecks, reactivated, wins, logouts, notices,
                   quitDialogs,  disconnectResult, uiErrors, escaped>>

\* __dialog_updater(dialog, title, description): a call with another number of
\* arguments raises TypeError before the body runs.
__dialog_updater(task, args) ==
    IF Len(args) = 2 THEN [task EXCEPT !.content = args] ELSE task

\* ------------------------------------------------------------- idle queue

\* The UI thread runs the oldest idle callback.
RunIdle ==
    /\ Running
    /\ idle # <<>>
    /\ idle' = Tail(idle)
    /\ LET e == Head(idle) IN
         CASE e.op = "prepare" ->
                /\ wins' = [wins EXCEPT ![e.id].prepared = TRUE]
                /\ UNCHANGED <<logs, uiErrors>>
           [] e.op \in {"close", "destroy"} ->
                /\ wins' = [wins EXCEPT ![e.id].open = FALSE,
                                        ![e.id].closedBy =
                                            IF wins[e.id].open THEN e.op ELSE @]
                /\ UNCHANGED <<logs, uiErrors>>
           [] e.op = "update" ->
                /\ logs' = [logs EXCEPT ![e.id] = __dialog_updater(@, e.args)]
                /\ uiErrors' = IF Len(e.args) = 2 THEN uiErrors
                               ELSE uiErrors \cup {"dialog_updater"}
                /\ UNCHANGED wins
           [] e.op = "close_dialog" ->
                /\ logs' = [logs EXCEPT ![e.id].dlg = "closed"]
                /\ UNCHANGED <<wins, uiErrors>>
    /\ UNCHANGED <<phase, actions, quitCalled, sudoRefused, conn, session,
                   is_logging_out, indicator, indicators, sessionChecks, reactivated, logouts, notices,
                   quitDialogs,  disconnectResult, escaped>>

\* ---------------------------------------------------------- other dialogs

\* The user dismisses a "please wait" notice.
UserCloseDialog ==
    /\ Running
    /\ notices > 0
    /\ notices' = notices - 1
    /\ UNCHANGED <<phase, actions, quitCalled, sudoRefused, conn, session,
                   is_logging_out, indicator, indicators, sessionChecks, reactivated, wins, idle, logouts, logs,
                   quitDialogs, disconnectResult, uiErrors, escaped>>

\* ------------------------------------------------------------------- Spec

\* Startup, activation, and what the user and the library do on their own.
NextCore ==
    \/ DoStartup
    \/ do_activate
    \/ UserCloseWindow
    \/ LibraryChange

NextQuit ==
    \/ OnQuit
    \/ QuitDialogConfirm
    \/ QuitDialogCancel

NextLogout ==
    \/ on_logout
    \/ LogoutDialogConfirm
    \/ LogoutDialogCancel
    \/ _logout_prepare
    \/ _logout_call
    \/ _logout_close
    \/ display_login_window
    \/ UserCloseDialog

NextLogs ==
    \/ on_click_get_logs
    \/ _async_get_bug_report
    \/ _async_generate_logs
    \/ _async_open_folder

Next == NextCore \/ NextQuit \/ NextLogout \/ NextLogs \/ RunIdle

\* The whole application.
Spec == Init /\ [][Next]_vars

\* The quit, logout and get-logs handlers share no state but the idle queue
\* and the end of the main loop, so each is also checked on its own, with
\* wider behaviours of the part it is about.
SpecQuit == Init /\ [][NextCore \/ NextQuit]_vars
SpecLogout == Init /\ [][NextCore \/ NextLogout \/ RunIdle]_vars
SpecLogs == Init /\ [][NextCore \/ NextLogs \/ RunIdle]_vars

\* The logout handlers under the scheduling the program runs with: a started
\* background task runs to its end, the main loop delivers the completion
\* callback, and the user answers the confirmation dialog one way or the other.
SpecLogoutFair ==
    /\ SpecLogout
    /\ WF_vars(LogoutDialogConfirm \/ LogoutDialogCancel)
    /\ WF_vars(_logout_prepare)
    /\ WF_vars(_logout_call)
    /\ WF_vars(_logout_close)
    /\ WF_vars(display_login_window)
    /\ WF_vars(RunIdle)

\* The two background tasks together with the UI thread that serves them:
\* startup, activation, the requests that start a task, the tasks' steps, the
\* completion callback and the idle queue.  The product of the two tasks is
\* large, so this specification admits fewer tasks of each kind.
JointLogout == Len(logouts) < MaxJointTasks /\ on_logout
JointGetLogs == Len(logs) < MaxJointTasks /\ on_click_get_logs

NextTasks ==
    \/ DoStartup
    \/ do_activate
    \/ JointLogout
    \/ LogoutDialogConfirm
    \/ _logout_prepare
    \/ _logout_call
    \/ _logout_close
    \/ display_login_window
    \/ JointGetLogs
    \/ _async_get_bug_report
    \/ _async_generate_logs
    \/ _async_open_folder
    \/ RunIdle

SpecTasks == Init /\ [][NextTasks]_vars

\* ----------------------------------------------------------------- claims

LogoutTasks == 1..Len(logouts)
LogTasks == 1..Len(logs)

\* C1: a logout request that arrives while is_logging_out is true shows the
\* "please wait" notice, leaves is_logging_out true and neither creates nor
\* starts a logout task; at most one logout task is in flight at any time.
C1_SecondLogoutRequest ==
    /\ [](Cardinality({t \in LogoutTasks : InFlight(t)}) <= 1)
    /\ [][(is_logging_out /\ on_logout) =>
            /\ notices' = notices + 1
            /\ is_logging_out'
            /\ logouts' = logouts]_vars

\* A "please wait" notice is open while a logout task is in flight.
C1_Witness == notices > 0 /\ \E t \in LogoutTasks : InFlight(t)

\* C2: after SUDO_UID and an answer other than y/Y, startup has ended the
\* application (quit was called) and no dialog and no window was shown,
\* whether or not a connection is active.
C2_RefusedStartupShowsNothing ==
    sudoRefused => (quitCalled /\ quitDialogs = 0 /\ notices = 0 /\ wins = <<>>)

\* The idle callbacks that still wait to act on get-logs task t.
LogsPending(t) == {k \in 1..Len(idle) : idle[k].by = 0 /\ idle[k].id = t}

\* C3: once a get-logs task has failed at generate_logs or at
\* open_folder_with_logs and its idle callback has run, the dialog shows an
\* error title and an error description, and no exception left the callback.
C3_FailureRewritesDialog ==
    /\ "dialog_updater" \notin uiErrors
    /\ \A t \in LogTasks :
          (/\ logs[t].st = "returned"
           /\ "fail" \in {logs[t].gen, logs[t].opn}
           /\ LogsPending(t) = {})
          => (Len(logs[t].content) = 2 /\ logs[t].content # GeneratingContent)

CloseScheduled(t) == \E k \in LogsPending(t) : idle[k].op = "close_dialog"

\* C4: the get-logs dialog is closed, or its close scheduled, only when both
\* generate_logs and open_folder_with_logs succeeded; and when both succeeded
\* the close is scheduled or done.
C4_ClosedIffBothSucceeded ==
    \A t \in LogTasks :
       /\ (logs[t].dlg = "closed" \/ CloseScheduled(t))
             => (logs[t].gen = "ok" /\ logs[t].opn = "ok")
       /\ (logs[t].st = "returned" /\ logs[t].gen = "ok" /\ logs[t].opn = "ok")
             => (logs[t].dlg = "closed" \/ CloseScheduled(t))

\* One get-logs dialog was closed after success, another is still open after a
\* failure whose callback has run.
C4_Witness ==
    /\ \E t \in LogTasks : logs[t].dlg = "closed"
    /\ \E t \in LogTasks :
          /\ logs[t].gen = "fail"
          /\ LogsPending(t) = {}
          /\ logs[t].dlg = "open"

\* C5: an activation with no active window creates and presents exactly one
\* window: the Dashboard if a session exists, the Login window if none does.
C5_ActivateChoosesWindow ==
    [][(NoActiveWindow /\ do_activate) =>
          /\ Len(wins') = Len(wins) + 1
          /\ SubSeq(wins', 1, Len(wins)) = wins
          /\ wins'[Len(wins')].open
          /\ wins'[Len(wins')].kind = (IF session THEN "dashboard" ELSE "login")]_vars

\* Activation built a Dashboard, and (after it was closed) a Login window.
C5_Witness ==
    /\ \E i \in 1..Len(wins) : wins[i].by = "activate" /\ wins[i].kind = "dashboard"
    /\ \E i \in 1..Len(wins) : wins[i].by = "activate" /\ wins[i].kind = "login"

\* C6: toolkit shutdown is never called before a disconnect attempt, and a
\* disconnect that fails with ConnectionNotFound surfaces no error and no
\* dialog and is followed by toolkit shutdown in the same handler.
C6_NotFoundAbsorbed ==
    /\ [](quitCalled => disconnectResult # "none")
    /\ [][(disconnectResult = "none" /\ disconnectResult' = "notfound") =>
            /\ quitCalled'
            /\ uiErrors' = uiErrors
            /\ quitDialogs' <= quitDialogs
            /\ notices' = notices]_vars

\* A running application quit after disconnect raised ConnectionNotFound.
C6_Witness ==
    disconnectResult = "notfound" /\ quitCalled /\ phase = "ready" /\ wins # <<>>

\* C7: a quit request with an active connection only opens the confirmation
\* dialog; a quit request without one disconnects and shuts down at once and
\* opens no dialog; and disconnect or shutdown happen in no step other than
\* the dialog's affirmative path or a request made without a connection.
C7_QuitNeedsConfirmation ==
    [][/\ (OnQuit /\ conn) =>
            /\ disconnectResult' = disconnectResult
            /\ ~quitCalled'
            /\ quitDialogs' = quitDialogs + 1
       /\ (OnQuit /\ ~conn) =>
            /\ disconnectResult' # "none"
            /\ quitCalled'
            /\ quitDialogs' = quitDialogs
       /\ (disconnectResult' # disconnectResult \/ quitCalled' # quitCalled) =>
            (QuitDialogConfirm \/ ~conn)]_vars

\* The application disconnected an existing connection and shut down.
C7_Witness == disconnectResult = "ok" /\ quitCalled

\* The close and destroy callbacks of logout tasks are scheduled, and run,
\* only after the task's protonvpn.logout() call has returned.
ClosedOnlyAfterLogout ==
    /\ \A k \in 1..Len(idle) :
          idle[k].op \in {"close", "destroy"}
             => logouts[idle[k].by].st \in {"returned", "done"}
    /\ \A i \in 1..Len(wins) :
          wins[i].closedBy \in {"close", "destroy"}
             => \E t \in LogoutTasks :
                   /\ logouts[t].st \in {"returned", "done"}
                   /\ \E k \in 1..Len(logouts[t].snap) : logouts[t].snap[k] = i

\* C8 as claimed: when protonvpn.logout() is called, the prepare step of every
\* window of the snapshot that has one has already run; windows are closed
\* only after the call has returned.
C8_PreparePerformedBeforeLogout ==
    /\ \A t \in LogoutTasks : logouts[t].late = {}
    /\ ClosedOnlyAfterLogout

\* C8 as amended: when protonvpn.logout() is called, the prepare step of every
\* window of the snapshot that has one has already been scheduled on the idle
\* queue or has run; windows are closed only after the call has returned.
C8_PrepareScheduledBeforeLogout ==
    /\ \A t \in LogoutTasks : logouts[t].unasked = {}
    /\ ClosedOnlyAfterLogout

\* A logout closed a Dashboard gracefully although its prepare step had not
\* run when protonvpn.logout() was called.
C8_Witness ==
    \E t \in LogoutTasks :
       /\ logouts[t].late # {}
       /\ \E i \in logouts[t].late : wins[i].closedBy = "close" /\ wins[i].prepared

\* C9: no exception leaves the target function of a background task.
C9_NothingEscapes == escaped = {}

\* C10: once a logout task whose protonvpn.logout() call failed has completed,
\* its progress dialog shows something other than the progress message.
C10_LogoutFailureReported ==
    \A t \in LogoutTasks :
       (logouts[t].res = "fail" /\ logouts[t].st = "done")
          => logouts[t].content # ProgressContent

\* The idle callbacks scheduled by logout task t.
LogoutScheduled(t) ==
    {k \in 1..Len(idle) : idle[k].by = t /\ idle[k].op \in {"prepare", "close", "destroy"}}

\* C11: a first logout request made with an active connection leaves its task
\* waiting for the LogoutDialog, one made without a connection starts it at
\* once; a waiting task starts only by the dialog's affirmative path, and
\* until then it has taken no snapshot, made no library call and scheduled
\* nothing.
C11_LogoutNeedsConfirmation ==
    /\ [](\A t \in LogoutTasks :
            logouts[t].st \in {"confirm", "dismissed"} =>
               /\ logouts[t].res = "none"
               /\ logouts[t].snap = <<>>
               /\ ~logouts[t].ret
               /\ logouts[t].cb = 0
               /\ LogoutScheduled(t) = {})
    /\ [][/\ (~is_logging_out /\ on_logout) =>
               logouts'[Len(logouts')].st = (IF conn THEN "confirm" ELSE "started")
          /\ \A t \in LogoutTasks :
               (logouts[t].st = "confirm" /\ logouts'[t].st # "confirm") =>
                  (LogoutDialogConfirm \/ LogoutDialogCancel)
          /\ \A t \in LogoutTasks :
               (logouts[t].st = "dismissed") => logouts'[t].st = "dismissed"]_vars

\* One logout ran to its end after the confirmation, another without one.
C11_Witness ==
    /\ \E t \in LogoutTasks : logouts[t].dlg = "closed" /\ logouts[t].st = "done"
    /\ \E t \in LogoutTasks : logouts[t].dlg = "open" /\ logouts[t].st = "done"

\* C12: the completion callback of a logout task runs at most once, and only
\* after _logout has returned (so after the library call, failed or not); a
\* task whose target has returned has had its callback or has it due; the
\* callback resets is_logging_out and presents a new Login window.
C12_CallbackAfterTarget ==
    /\ [](\A t \in LogoutTasks :
            /\ logouts[t].cb <= 1
            /\ (logouts[t].cb = 1) <=> (logouts[t].st = "done")
            /\ (logouts[t].cb = 1) => (logouts[t].ret /\ logouts[t].res # "none")
            /\ (logouts[t].ret /\ logouts[t].cb = 0 /\ Running)
                  => ENABLED display_login_window)
    /\ [][\A t \in LogoutTasks :
            (logouts'[t].cb # logouts[t].cb) =>
               /\ ~is_logging_out'
               /\ Len(wins') = Len(wins) + 1
               /\ wins'[Len(wins')].kind = "login"
               /\ wins'[Len(wins')].open]_vars

\* The callback has run after a failed logout call and after a successful one.
C12_Witness ==
    /\ \E t \in LogoutTasks : logouts[t].cb = 1 /\ logouts[t].res = "fail"
    /\ \E t \in LogoutTasks : logouts[t].cb = 1 /\ logouts[t].res = "ok"

\* A step of a background target: of _logout or of _async_get_logs.
BackgroundStep ==
    \/ _logout_prepare
    \/ _logout_call
    \/ _logout_close
    \/ _async_get_bug_report
    \/ _async_generate_logs
    \/ _async_open_folder

\* What the user sees: the windows and the dialogs.
UIState ==
    <<wins, notices, quitDialogs,
      [t \in 1..Len(logs) |-> <<logs[t].dlg, logs[t].content>>],
      [t \in 1..Len(logouts) |-> <<logouts[t].dlg, logouts[t].content>>]>>

\* C13: no step of a background target changes a window or a dialog; a window
\* is prepared, closed or destroyed for a logout, and a get-logs dialog is
\* updated or closed, only by the UI thread running an idle callback.
C13_UiUpdatesThroughIdle ==
    [][/\ BackgroundStep => UNCHANGED UIState
       /\ \A i \in 1..Len(wins) :
             (\/ wins'[i].prepared # wins[i].prepared
              \/ (wins'[i].closedBy # wins[i].closedBy
                    /\ wins'[i].closedBy \in {"close", "destroy"}))
             => RunIdle
       /\ \A t \in 1..Len(logs) :
             (logs'[t].dlg # logs[t].dlg \/ logs'[t].content # logs[t].content)
             => RunIdle]_vars

\* A Dashboard was prepared and closed for a logout and a get-logs dialog was
\* rewritten.
C13_Witness ==
    /\ \E i \in 1..Len(wins) : wins[i].prepared /\ wins[i].closedBy = "close"
    /\ \E t \in 1..Len(logs) : logs[t].content # GeneratingContent

\* C14: once the latest logout task has completed, no other logout is under
\* way and the task's idle callbacks have run, the Login window its callback
\* created is shown (unless the user closed it), every window created before
\* it is closed and no "please wait" notice is open.
C14_LogoutClosesEverything ==
    \A t \in LogoutTasks :
       (/\ t = Len(logouts)
        /\ logouts[t].st = "done"
        /\ ~is_logging_out
        /\ LogoutScheduled(t) = {})
       => /\ wins[logouts[t].login].open \/ wins[logouts[t].login].closedBy = "user"
          /\ \A i \in 1..Len(wins) : i < logouts[t].login => ~wins[i].open
          /\ notices = 0

\* C15: an activation while a window already exists re-presents that window:
\* it creates no window and does not consult the session-existence check, so
\* the number of windows does not grow.
C15_ActivationIdempotent ==
    [][(do_activate /\ ~NoActiveWindow)
          => /\ wins' = wins
             /\ sessionChecks' = sessionChecks
             /\ reactivated']_vars

C15_Witness ==
    /\ reactivated
    /\ Len(wins) = 1
    /\ wins[1].open
    /\ sessionChecks = 1

\* C16: after SUDO_UID and a non-confirming answer the remaining startup
\* steps are not executed: no action is registered and the "ready" state is
\* not reached.
C16_RefusedStartupStops ==
    sudoRefused => (actions = {} /\ phase # "ready")

\* C17: is_logging_out never stays true forever: whenever it is true it
\* eventually becomes false again, also when the user dismisses the logout
\* confirmation dialog.
C17_FlagEventuallyCleared ==
    is_logging_out ~> ~is_logging_out

\* Window i is in the snapshot logout task t took when it began.
InSnapshot(t, i) == \E k \in 1..Len(logouts[t].snap) : logouts[t].snap[k] = i

\* C18: every callback a logout task schedules acts on a window of the
\* task's own snapshot; a window the program closed or destroyed is in the
\* snapshot of some task; and the Login window created by a task's completion
\* callback is not in that task's snapshot, is the target of none of its
\* callbacks, and is closed by the program only as part of a later task's
\* snapshot.
C18_ClosesOnlySnapshot ==
    /\ \A k \in 1..Len(idle) :
          idle[k].op \in {"prepare", "close", "destroy"}
             => /\ idle[k].by \in LogoutTasks
                /\ InSnapshot(idle[k].by, idle[k].id)
    /\ \A i \in 1..Len(wins) :
          wins[i].closedBy \in {"close", "destroy"}
             => \E t \in LogoutTasks : InSnapshot(t, i)
    /\ \A t \in LogoutTasks :
          logouts[t].login # 0
             => /\ ~InSnapshot(t, logouts[t].login)
                /\ \A k \in LogoutScheduled(t) : idle[k].id # logouts[t].login
                /\ wins[logouts[t].login].closedBy \in {"close", "destroy"}
                      => \E u \in LogoutTasks : u > t /\ InSnapshot(u, logouts[t].login)

\* The completion callback has run while close callbacks of the same task
\* are still waiting in the idle queue.
C18_Witness ==
    \E t \in LogoutTasks :
       /\ logouts[t].st = "done"
       /\ logouts[t].snap # <<>>
       /\ wins[logouts[t].login].open
       /\ \E k \in LogoutScheduled(t) : idle[k].op \in {"close", "destroy"}

\* C19: the tray indicator is created by the first activation and at most
\* once: the count of created indicators never exceeds one and is one exactly
\* when self.indicator is set; only an activation that finds no indicator
\* creates one; every activation leaves the indicator set; and a stored
\* indicator is never replaced or dropped.
C19_IndicatorCreatedOnce ==
    /\ [](indicators <= 1 /\ ((indicators = 1) <=> (indicator = "Indicator")))
    /\ [][indicators' # indicators
             => (do_activate /\ indicator = "None" /\ indicators' = indicators + 1)]_vars
    /\ [][do_activate => indicator' = "Indicator"]_vars
    /\ [][indicator = "Indicator" => indicator' = indicator]_vars

\* One indicator after a repeated activation, a completed logout and a window
\* closed by it.
C19_Witness ==
    /\ indicators = 1
    /\ reactivated
    /\ \E t \in LogoutTasks : logouts[t].st = "done"
    /\ \E i \in 1..Len(wins) : wins[i].closedBy \in {"close", "destroy"}

====
